---- MODULE Spec2Model ----
(***************************************************************************)
(* black_magic: a model of src/main.rs.                                    *)
(*                                                                         *)
(* One host (a filesystem and a docker image store) on which the tool is   *)
(* invoked again and again.  Every invocation is one pass through main();  *)
(* each system call or external command of main() is one step.             *)
(*                                                                         *)
(* Text is a sequence of tokens.  A path is a sequence of tokens in which  *)
(* the tokens "\\" and "/" are the separator characters.                   *)
(***************************************************************************)
EXTENDS Integers, Sequences, FiniteSets, TLC

VARIABLES
    platform,      \* host: "windows" or "unix"
    fs,            \* host: path -> content, for the paths that exist
    images,        \* host: the tags in the docker image store
    pc,            \* per process: position in main()
    is_docker,     \* per process: matches.is_present("DOCKER")
    is_lambda,     \* per process: matches.is_present("LAMBDA")
    start_dir,     \* per process: the directory the shell started it in
    cwd,           \* per process: the process working directory
    docker_check,  \* per process: the local of line 86
    current_dir,   \* per process: the local of line 92
    image_exists,  \* per process: the local of line 107 (standard error of the inspection)
    image_build,   \* per process: image_build.status of line 121
    cmd,           \* per process: the arguments of the compile command
    built,         \* per process: built.status of lines 202 and 273
    project_image, \* per process: project_image.status of line 223
    log,           \* per process: what this run did and printed, in order
    exit_code      \* per process: the exit status (-1 while running)

vars == <<platform, fs, images, pc, is_docker, is_lambda, start_dir, cwd, docker_check,
          current_dir, image_exists, image_build, cmd, built, project_image, log, exit_code>>

hostVars == <<platform, fs, images>>

Procs == {1, 2}

\* Invocations that run one after the other use process 1 only.
SeqProcs == {1}

NoPath == <<>>

----------------------------------------------------------------------------
(* Paths (std::path) *)

MainSeparator(plat) == IF plat = "windows" THEN "\\" ELSE "/"

IsSeparator(plat, c) == IF plat = "windows" THEN c \in {"\\", "/"} ELSE c = "/"

\* PathBuf::push of a relative component
Push(plat, path, name) == path \o <<MainSeparator(plat)>> \o name

\* Path::file_name: the text after the last separator
FileName(plat, path) ==
    LET seps == {i \in 1..Len(path) : IsSeparator(plat, path[i])}
        last == IF seps = {} THEN 0 ELSE CHOOSE i \in seps : \A j \in seps : j <= i
    IN  SubSeq(path, last + 1, Len(path))

\* mutant: only the first backslash is replaced (str::replacen(.., 1))
ReplaceBackslash_FirstOnly(s) ==
    [i \in 1..Len(s) |->
        IF s[i] = "\\" /\ \A j \in 1..(i - 1) : s[j] # "\\" THEN "/" ELSE s[i]]

\* str::replace(r"\", r"/")
ReplaceBackslash(s) == [i \in 1..Len(s) |-> IF s[i] = "\\" THEN "/" ELSE s[i]]

\* slice::starts_with / str::starts_with
StartsWith(s, prefix) ==
    /\ Len(prefix) <= Len(s)
    /\ SubSeq(s, 1, Len(prefix)) = prefix

----------------------------------------------------------------------------
(* The host *)

Platforms == {"windows", "unix"}

\* The project directories of the host from which the tool is started
Roots(plat) ==
    IF plat = "windows"
    THEN {<<"C", ":", "\\", "p">>, <<"C", ":", "\\", "w", "\\", "q">>}
    ELSE {<<"/", "p">>, <<"/", "w", "/", "q">>}

\* home::cargo_home()
CargoHome(plat) ==
    IF plat = "windows" THEN <<"C", ":", "\\", "c">> ELSE <<"/", "c">>

Dir == [kind |-> "dir", lines |-> <<>>, entries |-> {}]

TextFile(lines) == [kind |-> "text", lines |-> lines, entries |-> {}]

Archive(kind, entries) == [kind |-> kind, lines |-> <<>>, entries |-> entries]

Exists(path) == path \in DOMAIN fs

\* fs::write, and every other creation of one path
FsPut(f, path, content) ==
    [x \in (DOMAIN f) \cup {path} |-> IF x = path THEN content ELSE f[x]]

\* The path itself and every ancestor of it: the text before each separator
Ancestors(plat, path) ==
    {SubSeq(path, 1, i - 1) : i \in {j \in 2..Len(path) : IsSeparator(plat, path[j])}}
        \cup {path}

\* fs::create_dir_all: every missing level of the path is created
CreateDirAll(f, plat, path) ==
    [x \in (DOMAIN f) \cup Ancestors(plat, path) |-> IF x \in DOMAIN f THEN f[x] ELSE Dir]

----------------------------------------------------------------------------
(* Names and texts fixed by the source *)

Manifest == <<"Cargo.toml">>

BuilderImage == <<"black_magic">>

\* const BM_DOCKERFILE
BM_DOCKERFILE ==
    <<"FROM registry.gitlab.com/rust_musl_docker/image:nightly-2020-04-23",
      "RUN apt-get update",
      "RUN apt-get install zip -y",
      "RUN apt-get install tar -y">>

\* bm_dir of lines 101..103
BmDir(plat, dir) == Push(plat, Push(plat, dir, <<"target">>), <<"black_magic">>)

\* mutant: the builder Dockerfile is put in the build-output directory itself
BmDockerfileDir_Flat(plat, dir) == BmDir(plat, dir)

\* bm_dockerfile of lines 111..112
BmDockerfileDir(plat, dir) == Push(plat, BmDir(plat, dir), <<"bm_dockerfile">>)

\* what `docker --version` may print on its standard output
VersionOutputs == {<<"Docker version", " 19.03.8">>, <<"podman version", " 1.9">>, <<>>}

VersionSignature == <<"Docker version">>

\* mutant: every inspection result counts as "no such image"
NoSuchImageSignature_Any == <<>>

NoSuchImageSignature == <<"Error: No such image: ", "black_magic">>

InvalidUtf8 == "<invalid utf-8>"

\* what `docker image inspect black_magic` may print on its standard error
InspectErrors(imgs) ==
    (IF BuilderImage \in imgs
     THEN {<<>>}
     ELSE {<<"Error: No such image: ", "black_magic">>,
           <<"Error response from daemon: ", "No such image: ", "black_magic", ":latest">>})
        \cup {<<"Cannot connect to the Docker daemon">>, <<InvalidUtf8>>}

\* std::str::from_utf8(..).is_ok()
IsUtf8(s) == \A i \in 1..Len(s) : s[i] # InvalidUtf8

----------------------------------------------------------------------------
(* What the program composes (format!) *)

\* "{}:/workdir" and the like: a host path, normalised, bound to a container path
Volume(host, container) == ReplaceBackslash(host) \o <<":", container>>

\* the head of both shell commands: cargo build to /
CargoBuild ==
    "cargo build --release -vv --target=x86_64-unknown-linux-musl -Z unstable-options --out-dir=/"

\* cargo_cmd of lines 194..196
DockerCargoCmd(project_name) ==
    <<CargoBuild, " && ", "tar -czf ", "target/black_magic/">>
        \o project_name \o <<".tar.gz", " /">> \o project_name

\* mutant: the binary is zipped under its own name
LambdaCargoCmd_NoRename(project_name) ==
    <<CargoBuild, " && ", "zip -j ", "target/black_magic/">>
        \o project_name \o <<".zip", " /">> \o project_name

\* cargo_cmd of lines 265..267
LambdaCargoCmd(project_name) ==
    <<CargoBuild, " && ", "mv /">> \o project_name \o <<" /", "bootstrap", " && ",
      "zip -j ", "target/black_magic/">> \o project_name \o <<".zip", " /", "bootstrap">>

\* the text written at lines 207..211
ProjectDockerfile(project_name) ==
    <<"FROM scratch", "ADD ">> \o project_name \o <<".tar.gz", " /">>

\* mutant: the tag is the bare project name
ProjectTag_NoPrefix(project_name) == project_name

\* format!("bm_{}", project_name)
ProjectTag(project_name) == <<"bm_">> \o project_name

----------------------------------------------------------------------------
(* What docker and the shell in the container do with it *)

Range(s) == {s[i] : i \in 1..Len(s)}

First(s, tok) == CHOOSE i \in 1..Len(s) : s[i] = tok /\ \A j \in 1..(i - 1) : s[j] # tok

Last(s, tok) == CHOOSE i \in 1..Len(s) : s[i] = tok /\ \A j \in (i + 1)..Len(s) : s[j] # tok

\* docker run [options] IMAGE COMMAND...: the indices of the -v options
VolumeFlags(args) == {i \in 1..(Len(args) - 1) : args[i] = <<"-v">>}

\* the first argument that is neither an option nor an option's value
ImageIndex(args) ==
    CHOOSE i \in 2..Len(args) :
        /\ args[i] \notin {<<"-i">>, <<"--rm">>, <<"-v">>} /\ args[i - 1] # <<"-v">>
        /\ \A j \in 2..(i - 1) : args[j] \in {<<"-i">>, <<"--rm">>, <<"-v">>} \/ args[j - 1] = <<"-v">>

\* the host paths bound to a container path by the -v options
HostsBoundTo(args, container) ==
    {SubSeq(args[i + 1], 1, Len(args[i + 1]) - 2) :
        i \in {j \in VolumeFlags(args) :
                  /\ Len(args[j + 1]) >= 2
                  /\ SubSeq(args[j + 1], Len(args[j + 1]) - 1, Len(args[j + 1])) = <<":", container>>}}

\* the existing host directories a -v host path names (windows takes either separator)
Resolve(f, plat, host) ==
    {x \in DOMAIN f :
        /\ f[x].kind = "dir"
        /\ IF plat = "windows" THEN ReplaceBackslash(x) = ReplaceBackslash(host) ELSE x = host}

\* the shell command of the container: which archive it writes, holding which member
IsTarScript(script) == "tar -czf " \in Range(script)

IsZipScript(script) == "zip -j " \in Range(script)

ArchiveCommand(script) == IF IsTarScript(script) THEN "tar -czf " ELSE "zip -j "

\* the archive: the text between "target/black_magic/" and the member's " /"
OutFile(script) ==
    SubSeq(script, First(script, ArchiveCommand(script)) + 2, Last(script, " /") - 1)

\* tar stores /name as name, and zip -j stores it without its directories
Member(script) == SubSeq(script, Last(script, " /") + 1, Len(script))

\* the file system after the container ran its command to the end in the mounted
\* project directory `root`: tar -c replaces the archive, zip adds to or replaces in it
\* (a command that fails is taken to leave the directory as it was)
Packed(f, plat, root, script) ==
    LET out == Push(plat, BmDir(plat, root), OutFile(script))
    IN  IF IsTarScript(script)
        THEN FsPut(f, out, Archive("tar", {Member(script)}))
        ELSE FsPut(f, out, Archive("zip",
                   (IF out \in DOMAIN f /\ f[out].kind = "zip" THEN f[out].entries ELSE {})
                       \cup {Member(script)}))

\* docker build . in directory dir can succeed: a Dockerfile is there, and what it ADDs
CanBuild(f, plat, dir) ==
    LET dockerfile == Push(plat, dir, <<"Dockerfile">>)
    IN  /\ dockerfile \in DOMAIN f
        /\ f[dockerfile].kind = "text"
        /\ LET lines == f[dockerfile].lines
           IN  "ADD " \in Range(lines) =>
                 /\ " /" \in Range(lines)
                 /\ Push(plat, dir, SubSeq(lines, First(lines, "ADD ") + 1,
                                                  Last(lines, " /") - 1)) \in DOMAIN f

----------------------------------------------------------------------------
(* One invocation of main() *)

Init ==
    /\ platform \in Platforms
    /\ \E manifests \in SUBSET Roots(platform), caches \in SUBSET {<<"git">>, <<"registry">>} :
         LET dirs == UNION {Ancestors(platform, r) : r \in Roots(platform)}
                       \cup Ancestors(platform, CargoHome(platform))
                       \cup {Push(platform, CargoHome(platform), c) : c \in caches}
             files == {Push(platform, r, Manifest) : r \in manifests}
         IN  fs = [x \in dirs \cup files |-> IF x \in dirs THEN Dir ELSE TextFile(<<"[package]">>)]
    /\ images = {}
    /\ pc = [p \in Procs |-> "idle"]
    /\ is_docker = [p \in Procs |-> FALSE]
    /\ is_lambda = [p \in Procs |-> FALSE]
    /\ start_dir = [p \in Procs |-> NoPath]
    /\ cwd = [p \in Procs |-> NoPath]
    /\ docker_check = [p \in Procs |-> "none"]
    /\ current_dir = [p \in Procs |-> NoPath]
    /\ image_exists = [p \in Procs |-> <<>>]
    /\ image_build = [p \in Procs |-> "none"]
    /\ cmd = [p \in Procs |-> <<>>]
    /\ built = [p \in Procs |-> "none"]
    /\ project_image = [p \in Procs |-> "none"]
    /\ log = [p \in Procs |-> <<>>]
    /\ exit_code = [p \in Procs |-> -1]

Goto(p, label) == pc' = [pc EXCEPT ![p] = label]

Did(p, events) == log' = [log EXCEPT ![p] = @ \o events]

\* `return` from main, and its end: exit status 0
Return(p, events) ==
    /\ Goto(p, "exited")
    /\ Did(p, events)
    /\ exit_code' = [exit_code EXCEPT ![p] = 0]

\* panic!, or expect() on an Err or a None: exit status 101
Panic(p, events) ==
    /\ Goto(p, "exited")
    /\ Did(p, events \o <<"panic">>)
    /\ exit_code' = [exit_code EXCEPT ![p] = 101]

\* The shell starts the program in a project directory with some flags (lines 61..76)
Start(p) ==
    /\ pc[p] = "idle"
    /\ \E d \in BOOLEAN, l \in BOOLEAN, r \in Roots(platform) :
         /\ is_docker' = [is_docker EXCEPT ![p] = d]
         /\ is_lambda' = [is_lambda EXCEPT ![p] = l]
         /\ start_dir' = [start_dir EXCEPT ![p] = r]
         /\ cwd' = [cwd EXCEPT ![p] = r]
    /\ Goto(p, "check_mode")
    /\ UNCHANGED <<platform, fs, images, docker_check, current_dir, image_exists,
                  image_build, cmd, built, project_image, log, exit_code>>

\* mutant: only the absence of a mode is rejected
CheckMode_OnlyNeither(p) ==
    /\ pc[p] = "check_mode"
    /\ IF ~is_docker[p] /\ ~is_lambda[p]
       THEN Return(p, <<"print: specify what to build">>)
       ELSE Goto(p, "docker_version") /\ UNCHANGED <<log, exit_code>>
    /\ UNCHANGED <<platform, fs, images, is_docker, is_lambda, start_dir, cwd,
                  docker_check, current_dir, image_exists, image_build, cmd, built,
                  project_image>>

\* lines 78..84
CheckMode(p) ==
    /\ pc[p] = "check_mode"
    /\ IF ~is_docker[p] /\ ~is_lambda[p]
       THEN Return(p, <<"print: specify what to build">>)
       ELSE IF is_docker[p] /\ is_lambda[p]
       THEN Return(p, <<"print: can't specify both">>)
       ELSE Goto(p, "docker_version") /\ UNCHANGED <<log, exit_code>>
    /\ UNCHANGED <<platform, fs, images, is_docker, is_lambda, start_dir, cwd,
                  docker_check, current_dir, image_exists, image_build, cmd, built,
                  project_image>>

\* mutant: the result of the probe is not looked at
DockerVersion_Unchecked(p) ==
    /\ pc[p] = "docker_version"
    /\ \E stdout \in VersionOutputs :
         /\ docker_check' = [docker_check EXCEPT ![p] =
                                IF StartsWith(stdout, VersionSignature) THEN "ok" ELSE "failed"]
         /\ Goto(p, "current_dir")
         /\ Did(p, <<"docker --version">>)
         /\ UNCHANGED exit_code
    /\ UNCHANGED <<platform, fs, images, is_docker, is_lambda, start_dir, cwd, current_dir,
                  image_exists, image_build, cmd, built, project_image>>

\* lines 86..90
DockerVersion(p) ==
    /\ pc[p] = "docker_version"
    /\ \/ /\ Panic(p, <<"docker --version">>)
          /\ docker_check' = [docker_check EXCEPT ![p] = "failed"]
       \/ \E stdout \in VersionOutputs :
            IF ~StartsWith(stdout, VersionSignature)
            THEN /\ docker_check' = [docker_check EXCEPT ![p] = "failed"]
                 /\ Return(p, <<"docker --version", "print: docker not installed">>)
            ELSE /\ docker_check' = [docker_check EXCEPT ![p] = "ok"]
                 /\ Goto(p, "current_dir")
                 /\ Did(p, <<"docker --version">>)
                 /\ UNCHANGED exit_code
    /\ UNCHANGED <<platform, fs, images, is_docker, is_lambda, start_dir, cwd, current_dir,
                  image_exists, image_build, cmd, built, project_image>>

\* mutant: the manifest is not looked for
CheckManifest_Unchecked(p) ==
    /\ pc[p] = "current_dir"
    /\ current_dir' = [current_dir EXCEPT ![p] = cwd[p]]
    /\ Goto(p, "create_bm_dir")
    /\ UNCHANGED <<platform, fs, images, is_docker, is_lambda, start_dir, cwd,
                  docker_check, image_exists, image_build, cmd, built, project_image, log,
                  exit_code>>

\* lines 92..99
CheckManifest(p) ==
    /\ pc[p] = "current_dir"
    /\ \/ /\ Panic(p, <<>>)
          /\ UNCHANGED current_dir
       \/ /\ current_dir' = [current_dir EXCEPT ![p] = cwd[p]]
          /\ LET cargo_toml == Push(platform, cwd[p], Manifest)
             IN  IF ~Exists(cargo_toml)
                 THEN Return(p, <<"print: no Cargo.toml">>)
                 ELSE Goto(p, "create_bm_dir") /\ UNCHANGED <<log, exit_code>>
    /\ UNCHANGED <<platform, fs, images, is_docker, is_lambda, start_dir, cwd,
                  docker_check, image_exists, image_build, cmd, built, project_image>>

\* mutant: the build-output directory is not created
CreateBmDir_Skipped(p) ==
    /\ pc[p] = "create_bm_dir"
    /\ Goto(p, "image_inspect")
    /\ UNCHANGED <<platform, fs, images, is_docker, is_lambda, start_dir, cwd, docker_check,
                  current_dir, image_exists, image_build, cmd, built, project_image, log,
                  exit_code>>

\* lines 101..104
CreateBmDir(p) ==
    /\ pc[p] = "create_bm_dir"
    /\ \/ /\ Panic(p, <<>>)
          /\ UNCHANGED fs
       \/ /\ fs' = CreateDirAll(fs, platform, BmDir(platform, current_dir[p]))
          /\ Goto(p, "image_inspect")
          /\ Did(p, <<"create_dir_all bm_dir">>)
          /\ UNCHANGED exit_code
    /\ UNCHANGED <<platform, images, is_docker, is_lambda, start_dir, cwd, docker_check,
                  current_dir, image_exists, image_build, cmd, built, project_image>>

\* lines 106..108
ImageInspect(p) ==
    /\ pc[p] = "image_inspect"
    /\ \/ /\ Panic(p, <<"docker image inspect">>)
          /\ UNCHANGED image_exists
       \/ \E stderr \in InspectErrors(images) :
            /\ image_exists' = [image_exists EXCEPT ![p] = stderr]
            /\ IF ~IsUtf8(stderr)
               THEN Panic(p, <<"docker image inspect">>)
               ELSE /\ Did(p, <<"docker image inspect">>)
                    /\ UNCHANGED exit_code
                    /\ IF StartsWith(stderr, NoSuchImageSignature)
                       THEN Goto(p, "create_bm_dockerfile_dir")
                       ELSE Goto(p, "compose")
    /\ UNCHANGED <<platform, fs, images, is_docker, is_lambda, start_dir, cwd,
                  docker_check, current_dir, image_build, cmd, built, project_image>>

\* lines 109..114
CreateBmDockerfileDir(p) ==
    /\ pc[p] = "create_bm_dockerfile_dir"
    /\ \/ /\ Panic(p, <<"print: Building black_magic image...">>)
          /\ UNCHANGED fs
       \/ /\ fs' = CreateDirAll(fs, platform, BmDockerfileDir(platform, current_dir[p]))
          /\ Goto(p, "enter_bm_dockerfile_dir")
          /\ Did(p, <<"print: Building black_magic image...", "create_dir_all bm_dockerfile">>)
          /\ UNCHANGED exit_code
    /\ UNCHANGED <<platform, images, is_docker, is_lambda, start_dir, cwd, docker_check,
                  current_dir, image_exists, image_build, cmd, built, project_image>>

\* line 115
EnterBmDockerfileDir(p) ==
    /\ pc[p] = "enter_bm_dockerfile_dir"
    /\ \/ /\ Panic(p, <<>>)
          /\ UNCHANGED cwd
       \/ /\ Exists(BmDockerfileDir(platform, current_dir[p]))
          /\ cwd' = [cwd EXCEPT ![p] = BmDockerfileDir(platform, current_dir[p])]
          /\ Goto(p, "write_bm_dockerfile")
          /\ Did(p, <<"set_current_dir bm_dockerfile">>)
          /\ UNCHANGED exit_code
    /\ UNCHANGED <<platform, fs, images, is_docker, is_lambda, start_dir, docker_check,
                  current_dir, image_exists, image_build, cmd, built, project_image>>

\* lines 117..119
WriteBmDockerfile(p) ==
    /\ pc[p] = "write_bm_dockerfile"
    /\ \/ /\ Panic(p, <<>>)
          /\ UNCHANGED fs
       \/ /\ Exists(BmDockerfileDir(platform, current_dir[p]))
          /\ fs' = FsPut(fs, Push(platform, BmDockerfileDir(platform, current_dir[p]),
                                  <<"Dockerfile">>), TextFile(BM_DOCKERFILE))
          /\ Goto(p, "build_bm_image")
          /\ Did(p, <<"write bm_dockerfile/Dockerfile">>)
          /\ UNCHANGED exit_code
    /\ UNCHANGED <<platform, images, is_docker, is_lambda, start_dir, cwd, docker_check,
                  current_dir, image_exists, image_build, cmd, built, project_image>>

\* mutant: a failed builder-image build removes the directory it was run in
BuildBmImage_CleansUp(p) ==
    /\ pc[p] = "build_bm_image"
    /\ \/ /\ Panic(p, <<"docker build black_magic">>)
          /\ UNCHANGED <<fs, images, image_build>>
       \/ /\ image_build' = [image_build EXCEPT ![p] = "failed"]
          /\ fs' = [x \in {y \in DOMAIN fs : ~StartsWith(y, cwd[p])} |-> fs[x]]
          /\ Panic(p, <<"docker build black_magic">>)
          /\ UNCHANGED images
       \/ /\ CanBuild(fs, platform, cwd[p])
          /\ image_build' = [image_build EXCEPT ![p] = "ok"]
          /\ images' = images \cup {BuilderImage}
          /\ Goto(p, "leave_bm_dockerfile_dir")
          /\ Did(p, <<"docker build black_magic">>)
          /\ UNCHANGED <<fs, exit_code>>
    /\ UNCHANGED <<platform, is_docker, is_lambda, start_dir, cwd, docker_check,
                  current_dir, image_exists, cmd, built, project_image>>

\* mutant: the image store is looked at again right before the build, and the
\* build is left out when another process has built the image meanwhile
BuildBmImage_Rechecked(p) ==
    /\ pc[p] = "build_bm_image"
    /\ IF BuilderImage \in images
       THEN /\ Goto(p, "leave_bm_dockerfile_dir")
            /\ UNCHANGED <<images, image_build, log, exit_code>>
       ELSE \/ /\ Panic(p, <<"docker build black_magic">>)
               /\ UNCHANGED <<images, image_build>>
            \/ /\ image_build' = [image_build EXCEPT ![p] = "failed"]
               /\ Panic(p, <<"docker build black_magic">>)
               /\ UNCHANGED images
            \/ /\ CanBuild(fs, platform, cwd[p])
               /\ image_build' = [image_build EXCEPT ![p] = "ok"]
               /\ images' = images \cup {BuilderImage}
               /\ Goto(p, "leave_bm_dockerfile_dir")
               /\ Did(p, <<"docker build black_magic">>)
               /\ UNCHANGED exit_code
    /\ UNCHANGED <<platform, fs, is_docker, is_lambda, start_dir, cwd, docker_check,
                  current_dir, image_exists, cmd, built, project_image>>

\* mutant: a failed builder-image build does not stop the run
BuildBmImage_FailureIgnored(p) ==
    /\ pc[p] = "build_bm_image"
    /\ \/ /\ image_build' = [image_build EXCEPT ![p] = "failed"]
          /\ UNCHANGED images
       \/ /\ CanBuild(fs, platform, cwd[p])
          /\ image_build' = [image_build EXCEPT ![p] = "ok"]
          /\ images' = images \cup {BuilderImage}
    /\ Goto(p, "leave_bm_dockerfile_dir")
    /\ Did(p, <<"docker build black_magic">>)
    /\ UNCHANGED <<platform, fs, is_docker, is_lambda, start_dir, cwd, docker_check,
                  current_dir, image_exists, cmd, built, project_image, exit_code>>

\* lines 121..124: docker build -t black_magic . in the working directory
BuildBmImage(p) ==
    /\ pc[p] = "build_bm_image"
    /\ \/ /\ Panic(p, <<"docker build black_magic">>)
          /\ UNCHANGED <<images, image_build>>
       \/ /\ image_build' = [image_build EXCEPT ![p] = "failed"]
          /\ Panic(p, <<"docker build black_magic">>)
          /\ UNCHANGED images
       \/ /\ CanBuild(fs, platform, cwd[p])
          /\ image_build' = [image_build EXCEPT ![p] = "ok"]
          /\ images' = images \cup {BuilderImage}
          /\ Goto(p, "leave_bm_dockerfile_dir")
          /\ Did(p, <<"docker build black_magic">>)
          /\ UNCHANGED exit_code
    /\ UNCHANGED <<platform, fs, is_docker, is_lambda, start_dir, cwd, docker_check,
                  current_dir, image_exists, cmd, built, project_image>>

\* line 126
LeaveBmDockerfileDir(p) ==
    /\ pc[p] = "leave_bm_dockerfile_dir"
    /\ \/ /\ Panic(p, <<>>)
          /\ UNCHANGED cwd
       \/ /\ cwd' = [cwd EXCEPT ![p] = current_dir[p]]
          /\ Goto(p, "compose")
          /\ Did(p, <<"set_current_dir current_dir">>)
          /\ UNCHANGED exit_code
    /\ UNCHANGED <<platform, fs, images, is_docker, is_lambda, start_dir, docker_check,
                  current_dir, image_exists, image_build, cmd, built, project_image>>

\* project_name of line 129
ProjectName(p) == FileName(platform, current_dir[p])

\* mutant: the git cache is bound without asking whether it exists
VolumeArgs_AlwaysGit(plat, f, dir) ==
    LET registry == Push(plat, CargoHome(plat), <<"registry">>)
    IN  <<<<"run">>, <<"-i">>, <<"--rm">>, <<"-v">>, Volume(dir, "/workdir"),
          <<"-v">>, Volume(Push(plat, CargoHome(plat), <<"git">>), "/root/.cargo/git")>>
            \o (IF registry \in DOMAIN f
                THEN <<<<"-v">>, Volume(registry, "/root/.cargo/registry")>> ELSE <<>>)

\* lines 131..155 and 163..176: the docker run command up to its volumes
VolumeArgs(plat, f, dir) ==
    LET current_dir_volume == Volume(dir, "/workdir")
        git == Push(plat, CargoHome(plat), <<"git">>)
        registry == Push(plat, CargoHome(plat), <<"registry">>)
    IN  <<<<"run">>, <<"-i">>, <<"--rm">>, <<"-v">>, current_dir_volume>>
            \o (IF git \in DOMAIN f THEN <<<<"-v">>, Volume(git, "/root/.cargo/git")>> ELSE <<>>)
            \o (IF registry \in DOMAIN f
                THEN <<<<"-v">>, Volume(registry, "/root/.cargo/registry")>> ELSE <<>>)

\* lines 198..201 and 269..272: the image and the shell command
CommandArgs(docker, project_name) ==
    <<BuilderImage, <<"/bin/bash">>, <<"-c">>,
      IF docker THEN DockerCargoCmd(project_name) ELSE LambdaCargoCmd(project_name)>>

\* lines 129..176
Compose(p) ==
    /\ pc[p] = "compose"
    /\ \/ /\ Panic(p, <<>>)
          /\ UNCHANGED cmd
       \/ /\ ProjectName(p) # <<>>
          /\ cmd' = [cmd EXCEPT ![p] = VolumeArgs(platform, fs, current_dir[p])]
          /\ Goto(p, "compile")
          /\ UNCHANGED <<log, exit_code>>
    /\ UNCHANGED <<platform, fs, images, is_docker, is_lambda, start_dir, cwd,
                  docker_check, current_dir, image_exists, image_build, built,
                  project_image>>

\* lines 178..202 and 249..273: docker run ... black_magic /bin/bash -c cargo_cmd
Compile(p) ==
    /\ pc[p] = "compile"
    /\ LET args == cmd[p] \o CommandArgs(is_docker[p], ProjectName(p))
           image == args[ImageIndex(args)]
           script == args[Len(args)]
           mounted == UNION {Resolve(fs, platform, h) : h \in HostsBoundTo(args, "/workdir")}
       IN  /\ cmd' = [cmd EXCEPT ![p] = args]
           /\ \/ /\ Panic(p, <<"print: Compiling project...", "docker run">>)
                 /\ UNCHANGED <<fs, built>>
              \/ /\ built' = [built EXCEPT ![p] = "failed"]
                 /\ UNCHANGED fs
                 /\ Goto(p, "built")
                 /\ Did(p, <<"print: Compiling project...", "docker run">>)
                 /\ UNCHANGED exit_code
              \/ /\ image \in images
                 /\ \E root \in mounted :
                      /\ BmDir(platform, root) \in DOMAIN fs
                      /\ fs' = Packed(fs, platform, root, script)
                 /\ built' = [built EXCEPT ![p] = "ok"]
                 /\ Goto(p, "built")
                 /\ Did(p, <<"print: Compiling project...", "docker run">>)
                 /\ UNCHANGED exit_code
    /\ UNCHANGED <<platform, images, is_docker, is_lambda, start_dir, cwd, docker_check,
                  current_dir, image_exists, image_build, project_image>>

\* lines 274..283 and 240..247: the end of a lambda run, and of a docker run that did not compile
ReportBuild(p) ==
    /\ pc[p] = "built"
    /\ ~(is_docker[p] /\ built[p] = "ok")
    /\ IF built[p] = "ok"
       THEN Return(p, <<"print: ...Done!">>)
       ELSE Return(p, <<"print: Build failed", "print: cmd", "print: stdout", "print: stderr">>)
    /\ UNCHANGED <<platform, fs, images, is_docker, is_lambda, start_dir, cwd,
                  docker_check, current_dir, image_exists, image_build, cmd, built,
                  project_image>>

\* mutant: the image is packaged after every compile that succeeded, in lambda
\* mode too
WriteProjectDockerfile_AnyMode(p) ==
    /\ pc[p] = "built"
    /\ built[p] = "ok"
    /\ Exists(BmDir(platform, current_dir[p]))
    /\ fs' = FsPut(fs, Push(platform, BmDir(platform, current_dir[p]), <<"Dockerfile">>),
                   TextFile(ProjectDockerfile(ProjectName(p))))
    /\ Goto(p, "enter_bm_dir")
    /\ Did(p, <<"print: project_dockerfile", "write Dockerfile",
                "print: Building project image...">>)
    /\ UNCHANGED <<platform, images, is_docker, is_lambda, start_dir, cwd, docker_check,
                  current_dir, image_exists, image_build, cmd, built, project_image,
                  exit_code>>

\* mutant: packaging does not look at the result of the compile
WriteProjectDockerfile_Ungated(p) ==
    /\ pc[p] = "built"
    /\ is_docker[p]
    /\ Exists(BmDir(platform, current_dir[p]))
    /\ fs' = FsPut(fs, Push(platform, BmDir(platform, current_dir[p]), <<"Dockerfile">>),
                   TextFile(ProjectDockerfile(ProjectName(p))))
    /\ Goto(p, "enter_bm_dir")
    /\ Did(p, <<"print: project_dockerfile", "write Dockerfile",
                "print: Building project image...">>)
    /\ UNCHANGED <<platform, images, is_docker, is_lambda, start_dir, cwd, docker_check,
                  current_dir, image_exists, image_build, cmd, built, project_image,
                  exit_code>>

\* lines 203..213
WriteProjectDockerfile(p) ==
    /\ pc[p] = "built"
    /\ is_docker[p] /\ built[p] = "ok"
    /\ \/ /\ Panic(p, <<"print: project_dockerfile">>)
          /\ UNCHANGED fs
       \/ /\ Exists(BmDir(platform, current_dir[p]))
          /\ fs' = FsPut(fs, Push(platform, BmDir(platform, current_dir[p]), <<"Dockerfile">>),
                         TextFile(ProjectDockerfile(ProjectName(p))))
          /\ Goto(p, "enter_bm_dir")
          /\ Did(p, <<"print: project_dockerfile", "write Dockerfile",
                      "print: Building project image...">>)
          /\ UNCHANGED exit_code
    /\ UNCHANGED <<platform, images, is_docker, is_lambda, start_dir, cwd, docker_check,
                  current_dir, image_exists, image_build, cmd, built, project_image>>

\* line 215
EnterBmDir(p) ==
    /\ pc[p] = "enter_bm_dir"
    /\ \/ /\ Panic(p, <<>>)
          /\ UNCHANGED cwd
       \/ /\ Exists(BmDir(platform, current_dir[p]))
          /\ cwd' = [cwd EXCEPT ![p] = BmDir(platform, current_dir[p])]
          /\ Goto(p, "build_project_image")
          /\ Did(p, <<"set_current_dir bm_dir">>)
          /\ UNCHANGED exit_code
    /\ UNCHANGED <<platform, fs, images, is_docker, is_lambda, start_dir, docker_check,
                  current_dir, image_exists, image_build, cmd, built, project_image>>

\* lines 223..228: docker build --no-cache -t bm_{project_name} . in the working directory
BuildProjectImage(p) ==
    /\ pc[p] = "build_project_image"
    /\ \/ /\ Panic(p, <<"docker build bm_">>)
          /\ UNCHANGED <<images, project_image>>
       \/ /\ project_image' = [project_image EXCEPT ![p] = "failed"]
          /\ Goto(p, "leave_bm_dir")
          /\ Did(p, <<"docker build bm_">>)
          /\ UNCHANGED <<images, exit_code>>
       \/ /\ CanBuild(fs, platform, cwd[p])
          /\ project_image' = [project_image EXCEPT ![p] = "ok"]
          /\ images' = images \cup {ProjectTag(ProjectName(p))}
          /\ Goto(p, "leave_bm_dir")
          /\ Did(p, <<"docker build bm_">>)
          /\ UNCHANGED exit_code
    /\ UNCHANGED <<platform, fs, is_docker, is_lambda, start_dir, cwd, docker_check,
                  current_dir, image_exists, image_build, cmd, built>>

\* line 230
LeaveBmDir(p) ==
    /\ pc[p] = "leave_bm_dir"
    /\ \/ /\ Panic(p, <<>>)
          /\ UNCHANGED cwd
       \/ /\ cwd' = [cwd EXCEPT ![p] = current_dir[p]]
          /\ Goto(p, "report_image")
          /\ Did(p, <<"set_current_dir current_dir">>)
          /\ UNCHANGED exit_code
    /\ UNCHANGED <<platform, fs, images, is_docker, is_lambda, start_dir, docker_check,
                  current_dir, image_exists, image_build, cmd, built, project_image>>

\* lines 232..239
ReportImage(p) ==
    /\ pc[p] = "report_image"
    /\ IF project_image[p] = "ok"
       THEN Return(p, <<"print: Project image: bm_", "print: ...Done!">>)
       ELSE Return(p, <<"print: Project image failed", "print: stdout", "print: stderr">>)
    /\ UNCHANGED <<platform, fs, images, is_docker, is_lambda, start_dir, cwd,
                  docker_check, current_dir, image_exists, image_build, cmd, built,
                  project_image>>

\* The process is gone; the shell may start the next one
Reap(p) ==
    /\ pc[p] = "exited"
    /\ Goto(p, "idle")
    /\ is_docker' = [is_docker EXCEPT ![p] = FALSE]
    /\ is_lambda' = [is_lambda EXCEPT ![p] = FALSE]
    /\ start_dir' = [start_dir EXCEPT ![p] = NoPath]
    /\ cwd' = [cwd EXCEPT ![p] = NoPath]
    /\ docker_check' = [docker_check EXCEPT ![p] = "none"]
    /\ current_dir' = [current_dir EXCEPT ![p] = NoPath]
    /\ image_exists' = [image_exists EXCEPT ![p] = <<>>]
    /\ image_build' = [image_build EXCEPT ![p] = "none"]
    /\ cmd' = [cmd EXCEPT ![p] = <<>>]
    /\ built' = [built EXCEPT ![p] = "none"]
    /\ project_image' = [project_image EXCEPT ![p] = "none"]
    /\ log' = [log EXCEPT ![p] = <<>>]
    /\ exit_code' = [exit_code EXCEPT ![p] = -1]
    /\ UNCHANGED hostVars

Step(p) ==
    \/ Start(p)
    \/ CheckMode(p)
    \/ DockerVersion(p)
    \/ CheckManifest(p)
    \/ CreateBmDir(p)
    \/ ImageInspect(p)
    \/ CreateBmDockerfileDir(p)
    \/ EnterBmDockerfileDir(p)
    \/ WriteBmDockerfile(p)
    \/ BuildBmImage(p)
    \/ LeaveBmDockerfileDir(p)
    \/ Compose(p)
    \/ Compile(p)
    \/ ReportBuild(p)
    \/ WriteProjectDockerfile(p)
    \/ EnterBmDir(p)
    \/ BuildProjectImage(p)
    \/ LeaveBmDir(p)
    \/ ReportImage(p)
    \/ Reap(p)

Next == \E p \in SeqProcs : Step(p)

Spec == Init /\ [][Next]_vars

(* Two invocations at the same time on one host: nothing in main() takes a
   lock, so their steps interleave freely.  The host is a unix one with one
   project root that has a manifest and no cargo caches. *)
InitConc ==
    /\ Init
    /\ platform = "unix"
    /\ \A r \in Roots(platform) : Exists(Push(platform, r, Manifest)) <=> r = <<"/", "p">>
    /\ \A c \in {<<"git">>, <<"registry">>} : ~Exists(Push(platform, CargoHome(platform), c))

NextConc == \E p \in Procs : Step(p)

SpecConc == InitConc /\ [][NextConc]_vars

----------------------------------------------------------------------------
(* What a run did *)

Events(p) == Range(log[p])

ExternalCommands ==
    {"docker --version", "docker image inspect", "docker build black_magic", "docker run",
     "docker build bm_"}

BuildCommands == ExternalCommands \ {"docker --version"}

FsChanges ==
    {"create_dir_all bm_dir", "create_dir_all bm_dockerfile", "write bm_dockerfile/Dockerfile",
     "write Dockerfile", "set_current_dir bm_dockerfile", "set_current_dir bm_dir",
     "set_current_dir current_dir"}

\* what lines 109..121 do
BuilderStage ==
    {"create_dir_all bm_dockerfile", "set_current_dir bm_dockerfile",
     "write bm_dockerfile/Dockerfile", "docker build black_magic"}

\* the place of an event in the log of p (0: it is not there)
At(p, e) == IF e \in Events(p) THEN First(log[p], e) ELSE 0

\* the step is one of process p
Moved(p) == pc'[p] # pc[p]

GitCache == Push(platform, CargoHome(platform), <<"git">>)

RegistryCache == Push(platform, CargoHome(platform), <<"registry">>)

----------------------------------------------------------------------------
(* C1: a run started with both mode flags, or with neither, ends at the mode
   check: no step of it changes the file system, the image store or the working
   directory, and it invokes no external command. *)
C1_ModeErrorTouchesNothing ==
    [][\A p \in Procs :
         (pc[p] # "idle" /\ is_docker[p] = is_lambda[p] /\ Moved(p)) =>
            /\ fs' = fs
            /\ images' = images
            /\ pc'[p] \in {"exited", "idle"}
            /\ pc'[p] = "exited" =>
                 /\ cwd'[p] = start_dir[p]
                 /\ Range(log'[p]) \cap (ExternalCommands \cup FsChanges) = {}]_vars

\* a run with both flags has ended, on a host where earlier runs built the builder image
C1_Witness ==
    \E p \in Procs :
        /\ pc[p] = "exited"
        /\ is_docker[p] /\ is_lambda[p]
        /\ log[p] = <<"print: can't specify both">>
        /\ BuilderImage \in images

(* C2: a run started in a directory without Cargo.toml never changes the file
   system or the image store, never creates the build-output directory and never
   invokes docker image inspect, docker build or docker run. *)
C2_NoManifestTouchesNothing ==
    [][\A p \in Procs :
         (pc[p] # "idle" /\ ~Exists(Push(platform, start_dir[p], Manifest)) /\ Moved(p)) =>
            /\ fs' = fs
            /\ images' = images
            /\ ~Exists(BmDir(platform, start_dir[p]))'
            /\ pc'[p] # "idle" =>
                 Range(log'[p]) \cap (BuildCommands \cup FsChanges) = {}]_vars

\* a run has got as far as the manifest check and was rejected there
C2_Witness ==
    \E p \in Procs :
        /\ pc[p] = "exited"
        /\ ~Exists(Push(platform, start_dir[p], Manifest))
        /\ log[p] = <<"docker --version", "print: no Cargo.toml">>

(* C3: when the runtime probe fails (docker --version cannot be run, or prints
   something else than the signature), that step ends the run, with the file
   system, the image store and the working directory as they were and no build
   command invoked. *)
C3_ProbeFailureTouchesNothing ==
    [][\A p \in Procs :
         (docker_check'[p] = "failed" /\ Moved(p)) =>
            /\ fs' = fs
            /\ images' = images
            /\ pc'[p] = "exited"
            /\ cwd'[p] = start_dir[p]
            /\ Range(log'[p]) \cap (BuildCommands \cup FsChanges) = {}]_vars

\* docker --version ran and printed something else
C3_Witness ==
    \E p \in Procs :
        /\ pc[p] = "exited"
        /\ docker_check[p] = "failed"
        /\ log[p] = <<"docker --version", "print: docker not installed">>
        /\ Exists(Push(platform, start_dir[p], Manifest))

(* C4: while the builder image exists, no step of any run creates the builder
   scratch directory, enters it, writes the builder Dockerfile or invokes the
   builder-image build. *)
C4_BuilderImageBuiltOnce ==
    [][(BuilderImage \in images) =>
         (\A p \in Procs :
             Len(log'[p]) > Len(log[p]) =>
                Range(SubSeq(log'[p], Len(log[p]) + 1, Len(log'[p]))) \cap BuilderStage = {})]_vars

\* a later run found the image and went on to compile without building it
C4_Witness ==
    \E p \in Procs :
        /\ BuilderImage \in images
        /\ pc[p] = "built"
        /\ image_exists[p] = <<>>
        /\ image_build[p] = "none"

(* C5: whenever the compile container has been launched, the inspection found
   the builder image present or this run built it. *)
C5_ImageEnsuredBeforeCompile ==
    \A p \in Procs :
        "docker run" \in Events(p) => (image_exists[p] = <<>> \/ image_build[p] = "ok")

(* C6: the docker run command binds the project directory to /workdir, binds each
   of the two cache directories exactly when it exists on the host, and binds
   nothing else. *)
C6_Mounts ==
    \A p \in Procs :
        cmd[p] # <<>> =>
            /\ HostsBoundTo(cmd[p], "/workdir") = {ReplaceBackslash(start_dir[p])}
            /\ HostsBoundTo(cmd[p], "/root/.cargo/git") =
                   IF Exists(GitCache) THEN {ReplaceBackslash(GitCache)} ELSE {}
            /\ HostsBoundTo(cmd[p], "/root/.cargo/registry") =
                   IF Exists(RegistryCache) THEN {ReplaceBackslash(RegistryCache)} ELSE {}
            /\ Cardinality(VolumeFlags(cmd[p])) =
                   Cardinality({c \in {GitCache, RegistryCache} : Exists(c)}) + 1

\* a run compiled with one cache directory there and the other missing
C6_Witness ==
    \E p \in Procs :
        /\ built[p] = "ok"
        /\ Exists(GitCache)
        /\ ~Exists(RegistryCache)

(* C7: at the end of a successful lambda run of project P, whatever ran before,
   the only zip archive of the build-output directory is P.zip, and its only
   entry is bootstrap. *)
C7_LambdaArchive ==
    \A p \in Procs :
        (pc[p] = "exited" /\ is_lambda[p] /\ ~is_docker[p] /\ built[p] = "ok") =>
            LET dir == BmDir(platform, start_dir[p])
                inDir == dir \o <<MainSeparator(platform)>>
                zips == {x \in DOMAIN fs : fs[x].kind = "zip" /\ StartsWith(x, inDir)}
            IN  /\ zips = {inDir \o FileName(platform, start_dir[p]) \o <<".zip">>}
                /\ \A x \in zips : fs[x].entries = {<<"bootstrap">>}

\* a successful lambda run that followed a docker run of the same project
C7_Witness ==
    \E p \in Procs :
        /\ pc[p] = "exited" /\ is_lambda[p] /\ ~is_docker[p] /\ built[p] = "ok"
        /\ Exists(BmDir(platform, start_dir[p]) \o <<MainSeparator(platform)>>
                      \o FileName(platform, start_dir[p]) \o <<".tar.gz">>)

(* C8: a docker run of project P that reports the image has built the image
   bm_P, and the Dockerfile of the build-output directory is
   FROM scratch / ADD P.tar.gz /. *)
C8_DockerImage ==
    \A p \in Procs :
        "print: Project image: bm_" \in Events(p) =>
            LET P == FileName(platform, start_dir[p])
                dockerfile == BmDir(platform, start_dir[p])
                                  \o <<MainSeparator(platform), "Dockerfile">>
            IN  /\ is_docker[p]
                /\ project_image[p] = "ok"
                /\ (<<"bm_">> \o P) \in images
                /\ Exists(dockerfile)
                /\ fs[dockerfile].kind = "text"
                /\ fs[dockerfile].lines = <<"FROM scratch", "ADD ">> \o P \o <<".tar.gz", " /">>

\* a docker run reported its image
C8_Witness ==
    \E p \in Procs :
        /\ pc[p] = "exited"
        /\ "print: Project image: bm_" \in Events(p)
        /\ exit_code[p] = 0

(* C9: the project Dockerfile is written and the project image build invoked
   only in docker mode and after a compile that succeeded; a run whose compile
   failed does neither and ends printing the command and the captured output. *)
C9_PackagingGated ==
    \A p \in Procs :
        /\ (Events(p) \cap {"write Dockerfile", "docker build bm_"} # {}) =>
              /\ is_docker[p]
              /\ built[p] = "ok"
              /\ 0 < At(p, "docker run")
              /\ At(p, "docker run") < At(p, "write Dockerfile")
              /\ "docker build bm_" \in Events(p) =>
                    At(p, "write Dockerfile") < At(p, "docker build bm_")
        /\ (built[p] = "failed" /\ pc[p] = "exited") =>
              /\ Events(p) \cap {"write Dockerfile", "docker build bm_"} = {}
              /\ Len(log[p]) >= 5
              /\ SubSeq(log[p], Len(log[p]) - 4, Len(log[p])) =
                     <<"docker run", "print: Build failed", "print: cmd", "print: stdout",
                       "print: stderr">>

\* a docker run whose compile failed has ended
C9_Witness ==
    \E p \in Procs :
        /\ pc[p] = "exited"
        /\ is_docker[p] /\ ~is_lambda[p]
        /\ built[p] = "failed"

(* C10: a run whose builder-image build fails ends there, by a panic: it launches
   no compile container and packages nothing, and the build-output directory, the
   scratch directory and the Dockerfile written there are still in place. *)
C10_BuilderFailureFatal ==
    \A p \in Procs :
        image_build[p] = "failed" =>
            /\ pc[p] = "exited"
            /\ exit_code[p] = 101
            /\ Events(p) \cap {"docker run", "write Dockerfile", "set_current_dir bm_dir",
                               "docker build bm_"} = {}
            /\ Exists(BmDir(platform, start_dir[p]))
            /\ Exists(BmDockerfileDir(platform, start_dir[p]))
            /\ Exists(Push(platform, BmDockerfileDir(platform, start_dir[p]), <<"Dockerfile">>))
            /\ fs[Push(platform, BmDockerfileDir(platform, start_dir[p]), <<"Dockerfile">>)]
                   = TextFile(BM_DOCKERFILE)

\* the builder-image build ran and failed
C10_Witness ==
    \E p \in Procs :
        /\ image_build[p] = "failed"
        /\ log[p][Len(log[p])] = "panic"

----------------------------------------------------------------------------
(* The stages of a run *)

\* the run ended with its artifact: the zip (lambda) or the image (docker)
Succeeded(p) ==
    /\ pc[p] = "exited"
    /\ exit_code[p] = 0
    /\ \/ is_lambda[p] /\ ~is_docker[p] /\ built[p] = "ok"
       \/ is_docker[p] /\ ~is_lambda[p] /\ project_image[p] = "ok"

Stage(p) ==
    CASE pc[p] = "idle" -> "None"
      [] pc[p] = "exited" -> IF Succeeded(p) THEN "Packaged" ELSE "Failed"
      [] pc[p] \in {"check_mode", "docker_version", "current_dir"} -> "Idle"
      [] pc[p] \in {"create_bm_dir", "image_inspect", "create_bm_dockerfile_dir",
                    "enter_bm_dockerfile_dir", "write_bm_dockerfile", "build_bm_image"}
            -> "EnvironmentChecked"
      [] pc[p] \in {"leave_bm_dockerfile_dir", "compose", "compile"} -> "BuilderImageReady"
      [] OTHER -> IF built[p] = "ok" THEN "Compiled" ELSE "BuilderImageReady"

StageEdges ==
    {<<"None", "Idle">>, <<"Idle", "EnvironmentChecked">>,
     <<"EnvironmentChecked", "BuilderImageReady">>, <<"BuilderImageReady", "Compiled">>,
     <<"Compiled", "Packaged">>,
     <<"Idle", "Failed">>, <<"EnvironmentChecked", "Failed">>,
     <<"BuilderImageReady", "Failed">>, <<"Compiled", "Failed">>,
     <<"Packaged", "None">>, <<"Failed", "None">>}

(* C11: the stage of a run changes only along Idle -> EnvironmentChecked ->
   BuilderImageReady -> Compiled -> Packaged, or from one of the first four to
   Failed; after Packaged or Failed the process is gone and changes nothing
   on the host. *)
C11_StageOrder ==
    [][\A p \in Procs :
         /\ Stage(p)' # Stage(p) => <<Stage(p), Stage(p)'>> \in StageEdges
         /\ (pc[p] = "exited" /\ Moved(p)) => (pc'[p] = "idle" /\ UNCHANGED hostVars)]_vars

\* a docker run got as far as Compiled and failed there, at the project image build
C11_Witness ==
    \E p \in Procs :
        /\ Stage(p) = "Failed"
        /\ built[p] = "ok"
        /\ project_image[p] = "failed"

(* C12: a docker-mode run that reached the project image build has, from the
   step after that build on and at its end, the working directory it started
   in, whatever the outcome of the build. *)
C12_CwdRestored ==
    \A p \in Procs :
        (/\ is_docker[p]
         /\ "docker build bm_" \in Events(p)
         /\ pc[p] \in {"report_image", "exited"})
            => cwd[p] = start_dir[p]

\* how often an event is in the log of p
Times(p, e) == Cardinality({i \in 1..Len(log[p]) : log[p][i] = e})

\* the inspection did not answer: it printed an error that is not about the image
InspectFailed(p) ==
    /\ "docker image inspect" \in Events(p)
    /\ image_exists[p] # <<>>
    /\ "black_magic" \notin Range(image_exists[p])

\* the external commands of p that failed
FailedCommands(p) ==
    {e \in ExternalCommands \cap Events(p) :
        \/ e = "docker --version" /\ docker_check[p] = "failed"
        \/ e = "docker image inspect" /\ InspectFailed(p)
        \/ e = "docker build black_magic" /\ image_build[p] = "failed"
        \/ e = "docker run" /\ built[p] = "failed"
        \/ e = "docker build bm_" /\ project_image[p] = "failed"}

(* C13: within one run every external command is invoked at most once, and
   no external command is invoked after one that failed. *)
C13_NoRetry ==
    \A p \in Procs :
        /\ \A e \in ExternalCommands : Times(p, e) <= 1
        /\ \A e \in FailedCommands(p) :
               \A i \in (At(p, e) + 1)..Len(log[p]) : log[p][i] \notin ExternalCommands

\* the six kinds of failure of a run that has ended
ModeError(p) ==
    Events(p) \cap {"print: specify what to build", "print: can't specify both"} # {}

RuntimeUnavailable(p) == docker_check[p] = "failed"

NotProjectRoot(p) == "print: no Cargo.toml" \in Events(p)

BuilderFailure(p) == image_build[p] = "failed"

CompileFailure(p) == built[p] = "failed"

ProjectImageFailure(p) == project_image[p] = "failed"

FailurePath(p) ==
    /\ pc[p] = "exited"
    /\ \/ ModeError(p)
       \/ RuntimeUnavailable(p)
       \/ NotProjectRoot(p)
       \/ BuilderFailure(p)
       \/ CompileFailure(p)
       \/ ProjectImageFailure(p)

(* C14 as stated: any two runs that ended on a failure path ended with the
   same exit status. *)
C14_SameExitSignal ==
    \A p, q \in Procs :
        (FailurePath(p) /\ FailurePath(q)) => exit_code[p] = exit_code[q]

(* C14, amended: a run ends with status 101 exactly when it panicked and with
   status 0 otherwise; a builder image build failure always ends in a panic,
   while a mode error, an unrecognised version output, a missing manifest and a
   compile failure always end with status 0, the status of a successful run,
   and so does a reported project image failure. *)
C14_ExitStatus ==
    \A p \in Procs :
        pc[p] = "exited" =>
            /\ exit_code[p] = IF "panic" \in Events(p) THEN 101 ELSE 0
            /\ BuilderFailure(p) => exit_code[p] = 101
            /\ (ModeError(p) \/ NotProjectRoot(p) \/ CompileFailure(p)) => exit_code[p] = 0
            /\ "print: docker not installed" \in Events(p) => exit_code[p] = 0
            /\ "print: Project image failed" \in Events(p) => exit_code[p] = 0
            /\ "print: ...Done!" \in Events(p) => exit_code[p] = 0

\* one run ended on a failed builder image build, another on a failed compile
C14_Witness ==
    \E p, q \in Procs :
        /\ pc[p] = "exited" /\ BuilderFailure(p)
        /\ pc[q] = "exited" /\ CompileFailure(q)
        /\ exit_code[p] # exit_code[q]

\* a file or directory of the build-output directory of the run of p
InBmDir(p, name) == BmDir(platform, start_dir[p]) \o <<MainSeparator(platform)>> \o name

\* the artifacts of the mode of p
Artifacts(p) ==
    LET P == FileName(platform, start_dir[p])
    IN  IF is_lambda[p]
        THEN {InBmDir(p, P \o <<".zip">>)}
        ELSE {InBmDir(p, P \o <<".tar.gz">>), InBmDir(p, <<"Dockerfile">>)}

(* C15 as stated: after a successful run the build-output directory holds the
   nested builder directory and the artifacts of the mode. *)
C15_OutputLayout ==
    \A p \in Procs :
        Succeeded(p) =>
            /\ Exists(InBmDir(p, <<"bm_dockerfile">>))
            /\ \A x \in Artifacts(p) : Exists(x)

(* C15, amended: after a successful run the build-output directory holds the
   artifacts of the mode; it holds the nested builder directory, with the
   builder Dockerfile in it, when this run built the builder image, and a run
   that found the image present has not created it. *)
C15_Artifacts ==
    \A p \in Procs :
        Succeeded(p) =>
            /\ \A x \in Artifacts(p) : Exists(x)
            /\ image_build[p] = "ok" =>
                  /\ Exists(InBmDir(p, <<"bm_dockerfile">>))
                  /\ Exists(InBmDir(p, <<"bm_dockerfile", MainSeparator(platform), "Dockerfile">>))
            /\ image_build[p] = "none" => "create_dir_all bm_dockerfile" \notin Events(p)

\* a successful run that found the builder image present, in a project whose
\* build-output directory has no nested builder directory
C15_Witness ==
    \E p \in Procs :
        /\ Succeeded(p)
        /\ image_exists[p] = <<>>
        /\ image_build[p] = "none"
        /\ ~Exists(InBmDir(p, <<"bm_dockerfile">>))

\* the inspection of p said that there is no builder image
SawImageAbsent(p) ==
    /\ "docker image inspect" \in Events(p)
    /\ StartsWith(image_exists[p], NoSuchImageSignature)

(* C16: with two invocations on one host, a process that saw the builder image
   absent and has come to the builder image build can run that build, whatever
   the other process has done meanwhile, also when the other has built the
   image already: nothing between the inspection and the build holds it back. *)
C16_BuildNotPrevented ==
    \A p \in Procs :
        (pc[p] = "build_bm_image" /\ SawImageAbsent(p)) =>
            ENABLED (BuildBmImage(p) /\ image_build'[p] = "ok")

\* both processes saw the image absent and both ran the builder image build
C16_Witness ==
    \A p \in Procs :
        /\ SawImageAbsent(p)
        /\ "docker build black_magic" \in Events(p)
        /\ image_build[p] = "ok"

\* a run in lambda mode
Lambda(p) == is_lambda[p] /\ ~is_docker[p]

(* C17: in a lambda run nothing follows the compile command but the report:
   no external command, no write of a project Dockerfile and no change of the
   working directory come after it, no project image build is ever run, and
   the run reports success exactly when that command succeeded. *)
C17_LambdaEndsAtCompile ==
    \A p \in Procs :
        (Lambda(p) /\ "docker run" \in Events(p)) =>
            /\ \A i \in (At(p, "docker run") + 1)..Len(log[p]) :
                   log[p][i] \notin ExternalCommands \cup FsChanges
            /\ "write Dockerfile" \notin Events(p)
            /\ project_image[p] = "none"
            /\ cwd[p] = start_dir[p]
            /\ pc[p] \in {"built", "exited"}
            /\ (pc[p] = "exited" /\ "panic" \notin Events(p)) =>
                   /\ built[p] = "ok" <=> "print: ...Done!" \in Events(p)
                   /\ built[p] = "failed" <=> "print: Build failed" \in Events(p)

\* a lambda run has ended after a compile command that failed
C17_Witness ==
    \E p \in Procs :
        /\ Lambda(p)
        /\ pc[p] = "exited"
        /\ built[p] = "failed"
        /\ "print: Build failed" \in Events(p)

(* C18: no step deletes anything: every path that exists still exists after
   the step, as a directory if it was one, and every image of the store is
   still in the store. *)
C18_NothingDeleted ==
    [][/\ \A x \in DOMAIN fs : x \in DOMAIN fs' /\ (fs[x].kind = "dir" => fs'[x].kind = "dir")
       /\ images \subseteq images']_vars

\* a run has failed at the project image build and has ended, and the build-output
\* directory, the archive, the Dockerfile and both builder directories are
\* still there
C18_Witness ==
    \E p \in Procs :
        /\ pc[p] = "exited"
        /\ project_image[p] = "failed"
        /\ Exists(InBmDir(p, <<"Dockerfile">>))
        /\ Exists(InBmDir(p, FileName(platform, start_dir[p]) \o <<".tar.gz">>))
        /\ Exists(InBmDir(p, <<"bm_dockerfile", MainSeparator(platform), "Dockerfile">>))
        /\ BuilderImage \in images

\* the values of the -v options of a docker run command
Mounts(args) == {args[i + 1] : i \in VolumeFlags(args)}

\* host is path with every backslash replaced by a slash and nothing else changed
Normalised(path, host) ==
    /\ Len(host) = Len(path)
    /\ \A i \in 1..Len(path) : host[i] = IF path[i] = "\\" THEN "/" ELSE path[i]

\* the directories a run mounts and where it mounts them
Mounted(p) ==
    {<<start_dir[p], "/workdir">>}
        \cup (IF Exists(GitCache) THEN {<<GitCache, "/root/.cargo/git">>} ELSE {})
        \cup (IF Exists(RegistryCache) THEN {<<RegistryCache, "/root/.cargo/registry">>} ELSE {})

(* C19: in the composed docker run command no mount contains a backslash, and
   for the project root and for each cache directory that exists there is the
   mount made of the directory's path with every backslash replaced by a
   slash and nothing else changed, a colon, and the fixed container path. *)
C19_SeparatorsNormalised ==
    \A p \in Procs :
        cmd[p] # <<>> =>
            /\ \A m \in Mounts(cmd[p]) : "\\" \notin Range(m)
            /\ \A d \in Mounted(p) :
                   \E m \in Mounts(cmd[p]) :
                       /\ Len(m) = Len(d[1]) + 2
                       /\ Normalised(d[1], SubSeq(m, 1, Len(d[1])))
                       /\ SubSeq(m, Len(d[1]) + 1, Len(m)) = <<":", d[2]>>

\* on windows, a command was composed for a project root with two backslashes
\* in its path, with a cache directory mounted
C19_Witness ==
    \E p \in Procs :
        /\ cmd[p] # <<>>
        /\ Cardinality({i \in 1..Len(start_dir[p]) : start_dir[p][i] = "\\"}) >= 2
        /\ Exists(GitCache)
        /\ Cardinality(Mounts(cmd[p])) >= 2

\* what the step adds to the log of p
NewEvents(p) ==
    IF Len(log'[p]) > Len(log[p])
    THEN Range(SubSeq(log'[p], Len(log[p]) + 1, Len(log'[p])))
    ELSE {}

(* C20: the step of a run that brings the build-output directory into being is
   the one after the manifest check, taken with exactly one mode flag, a
   recognised version probe and the manifest in place; and the directory
   exists at every step that inspects the builder image or launches the
   compile container. *)
C20_BmDirBeforeUse ==
    [][\A p \in Procs :
         Moved(p) =>
            LET dir == BmDir(platform, start_dir[p])
            IN  /\ (dir \notin DOMAIN fs /\ dir \in DOMAIN fs') =>
                      /\ pc[p] = "create_bm_dir"
                      /\ is_docker[p] # is_lambda[p]
                      /\ docker_check[p] = "ok"
                      /\ Exists(Push(platform, start_dir[p], Manifest))
                /\ (NewEvents(p) \cap {"docker image inspect", "docker run"} # {}) =>
                      /\ dir \in DOMAIN fs
                      /\ fs[dir].kind = "dir"]_vars

\* a run has created the build-output directory, inspected the image and
\* launched the compile container
C20_Witness ==
    \E p \in Procs :
        /\ "create_dir_all bm_dir" \in Events(p)
        /\ At(p, "create_dir_all bm_dir") < At(p, "docker image inspect")
        /\ At(p, "docker image inspect") < At(p, "docker run")

====
